---------------------------- MODULE Spec2Model ----------------------------
(***************************************************************************)
(* A model of the Plugwise thermostat client of src/climate.py: the        *)
(* transport layer (connect, request, close_connection), the throttled     *)
(* domain-objects cache (update_domain_objects, update_device,             *)
(* find_all_appliances), the ampersand sanitizer and the getters that      *)
(* query the cached snapshot.                                              *)
(*                                                                         *)
(* Python values are encoded with one shape per kind so that any two of    *)
(* them can be compared:                                                   *)
(*   - Optional[tree] is a sequence: <<>> is None, <<t>> is the tree t;    *)
(*   - a text is a sequence of one-character strings;                      *)
(*   - the outcome of a call is a record Res (see below).                  *)
(***************************************************************************)
EXTENDS Integers, Sequences, FiniteSets, TLC

(***************************************************************************)
(* Texts                                                                   *)
(***************************************************************************)

\* The letters [a-zA-Z] that occur in the texts of this model.
Letters == {"a", "m", "p", "e", "r", "o", "k"}

Digits == <<"0", "1", "2", "3", "4", "5", "6", "7", "8", "9">>

RECURSIVE SeqsUpTo(_, _)
\* All sequences over S of length at most n.
SeqsUpTo(S, n) ==
    IF n = 0 THEN {<<>>}
    ELSE LET shorter == SeqsUpTo(S, n - 1)
         IN  shorter \cup {Append(s, c) : s \in {x \in shorter : Len(x) = n - 1}, c \in S}

\* Python's `sub in s` on texts.
Contains(s, sub) ==
    \E i \in 1..(Len(s) - Len(sub) + 1) : SubSeq(s, i, i + Len(sub) - 1) = sub

AmpEntity == <<"&", "a", "m", "p", ";">>

RECURSIVE EscapeFrom(_, _)
\* re.sub scanning xmldata from position i: the pattern &([^a-zA-Z#]) needs a
\* character after the '&' and consumes it, so the scan resumes after it.
EscapeFrom(xmldata, i) ==
    IF i > Len(xmldata) THEN <<>>
    ELSE IF /\ xmldata[i] = "&"
            /\ i + 1 <= Len(xmldata)
            /\ xmldata[i + 1] \notin Letters \cup {"#"}
         THEN AmpEntity \o <<xmldata[i + 1]>> \o EscapeFrom(xmldata, i + 2)
         ELSE <<xmldata[i]>> \o EscapeFrom(xmldata, i + 1)

\* Plugwise.escape_illegal_xml_characters
escape_illegal_xml_characters(xmldata) == EscapeFrom(xmldata, 1)

\* What the XML parser accepts of the character data of a document: every
\* '&' must open a reference, and the only one these texts can spell is &amp;
WellFormedText(s) ==
    \A i \in 1..Len(s) :
        s[i] = "&" => /\ i + 4 <= Len(s)
                      /\ SubSeq(s, i, i + 4) = AmpEntity

(***************************************************************************)
(* Results of calls                                                        *)
(***************************************************************************)

None == <<>>
Some(x) == <<x>>

\* The outcome of a call: k is "pending" (no outcome yet), "None", "True",
\* "False", "float" (mant / 10^exp), "str" (chars, or the identifier s),
\* "tree" or "raise" (s names the exception).
Res(k, mant, exp, s, chars, tree) ==
    [k |-> k, mant |-> mant, exp |-> exp, s |-> s, chars |-> chars, tree |-> tree]

Pending == Res("pending", 0, 0, "", <<>>, None)
RNone == Res("None", 0, 0, "", <<>>, None)
RBool(b) == Res(IF b THEN "True" ELSE "False", 0, 0, "", <<>>, None)
RFloat(m, e) == Res("float", m, e, "", <<>>, None)
RId(s) == Res("str", 0, 0, s, <<>>, None)
RText(chars) == Res("str", 0, 0, "", chars, None)
RTree(t) == Res("tree", 0, 0, "", <<>>, Some(t))
Raise(exc) == Res("raise", 0, 0, exc, <<>>, None)

\* The value of an Optional[tree] as the outcome of the call returning it.
ROpt(opt) == IF opt = None THEN RNone ELSE RTree(opt[1])

(***************************************************************************)
(* float() of a measurement text                                           *)
(***************************************************************************)

IsDigit(c) == \E i \in 1..10 : Digits[i] = c
DigitVal(c) == (CHOOSE i \in 1..10 : Digits[i] = c) - 1

RECURSIVE DigitsVal(_)
DigitsVal(s) ==
    IF s = <<>> THEN 0 ELSE 10 * DigitsVal(SubSeq(s, 1, Len(s) - 1)) + DigitVal(s[Len(s)])

RECURSIVE StripZeros(_)
StripZeros(s) ==
    IF s # <<>> /\ s[Len(s)] = "0" THEN StripZeros(SubSeq(s, 1, Len(s) - 1)) ELSE s

\* Python's float(chars) for unsigned decimal texts: digits with at most one
\* point and at least one digit; anything else is a ValueError.
float(chars) ==
    LET dots == {i \in 1..Len(chars) : chars[i] = "."}
        dot  == IF dots = {} THEN Len(chars) + 1 ELSE CHOOSE i \in dots : TRUE
        int  == SubSeq(chars, 1, dot - 1)
        frac == StripZeros(SubSeq(chars, dot + 1, Len(chars)))
    IN  IF /\ Cardinality(dots) <= 1
           /\ \A i \in 1..Len(chars) : i \notin dots => IsDigit(chars[i])
           /\ Len(chars) - Cardinality(dots) >= 1
        THEN RFloat(DigitsVal(int \o frac), Len(frac))
        ELSE Raise("ValueError")

(***************************************************************************)
(* The domain snapshot                                                     *)
(*                                                                         *)
(* A parsed domain-objects document, reduced to the elements the getters'  *)
(* path expressions can reach, each list in document order:                *)
(*   services: the module/services/* elements; log_type is the attribute,  *)
(*             point_log says whether functionalities/point_log exists and *)
(*             id is that element's id attribute (None when it has none);  *)
(*   logs:     the */logs/point_log elements; id is the attribute, atype   *)
(*             the text of the owning appliance's <type>, ltype the text   *)
(*             of the point_log's <type>, measurement says whether         *)
(*             period/measurement exists and text is its text (<<>> when   *)
(*             the element is empty: ElementTree's None);                  *)
(*   rules:    the rule elements; active is the text of <active>, then     *)
(*             says whether directives/when/then exists and icon is its    *)
(*             icon attribute (None when it has none).                     *)
(***************************************************************************)

Service(lt, pl, id) == [log_type |-> lt, point_log |-> pl, id |-> id]
PointLog(id, at, lt, m, text) ==
    [id |-> id, atype |-> at, ltype |-> lt, measurement |-> m, text |-> text]
Rule(active, then, icon) == [active |-> active, then |-> then, icon |-> icon]
Tree(services, logs, rules) == [services |-> services, logs |-> logs, rules |-> rules]

\* The least of the positions hits, 0 when there is none: ElementTree's find
\* returns the first match in document order.
First(hits) ==
    IF hits = {} THEN 0 ELSE CHOOSE i \in hits : \A j \in hits : i <= j

\* Plugwise.get_point_log_id
get_point_log_id(xmldata, log_type) ==
    IF xmldata = None THEN Raise("AttributeError")
    ELSE LET services == xmldata[1].services
             i == First({j \in 1..Len(services) :
                            /\ services[j].log_type = log_type
                            /\ services[j].point_log})
         IN  IF i = 0 THEN RNone
             ELSE IF services[i].id = None THEN Raise("KeyError")
             ELSE RId(services[i].id[1])

\* get_measurement_from_point_log taking the first measurement of any
\* point-log, whatever its id.
get_measurement_ignoring_id(xmldata, point_log_id) ==
    IF xmldata = None THEN Raise("AttributeError")
    ELSE LET logs == xmldata[1].logs
             i == First({j \in 1..Len(logs) : logs[j].measurement})
         IN  IF i = 0 \/ logs[i].text = <<>> THEN RNone ELSE RText(logs[i].text)

\* Plugwise.get_measurement_from_point_log
get_measurement_from_point_log(xmldata, point_log_id) ==
    IF xmldata = None THEN Raise("AttributeError")
    ELSE LET logs == xmldata[1].logs
             i == First({j \in 1..Len(logs) :
                            /\ logs[j].id = point_log_id
                            /\ logs[j].measurement})
         IN  IF i = 0 \/ logs[i].text = <<>> THEN RNone ELSE RText(logs[i].text)

\* Python's truth value of a returned identifier or text.
Truthy(r) == r.k = "str" /\ (r.s # "" \/ r.chars # <<>>)

\* get_current_preset reading the icon of the action it found without the
\* test for the attribute.
get_current_preset_unguarded(legacy, xmldata) ==
    IF xmldata = None THEN Raise("AttributeError")
    ELSE LET rules == xmldata[1].rules
             i == First({j \in 1..Len(rules) :
                            /\ rules[j].active = "true"
                            /\ rules[j].then})
         IN  IF i = 0 THEN RId("none")
             ELSE IF rules[i].icon = None THEN Raise("KeyError")
             ELSE RId(rules[i].icon[1])

\* Plugwise.get_current_preset
get_current_preset(legacy, xmldata) ==
    IF xmldata = None THEN Raise("AttributeError")
    ELSE IF legacy
    THEN LET rules == xmldata[1].rules
             i == First({j \in 1..Len(rules) :
                            /\ rules[j].active = "true"
                            /\ rules[j].then})
         IN  IF i = 0 \/ rules[i].icon = None THEN RId("none")
             ELSE RId(rules[i].icon[1])
    ELSE LET logs == xmldata[1].logs
             i == First({j \in 1..Len(logs) :
                            /\ logs[j].atype = "thermostat"
                            /\ logs[j].ltype = "preset_state"
                            /\ logs[j].measurement})
         IN  IF i = 0 THEN Raise("AttributeError")
             ELSE IF logs[i].text = <<>> THEN RNone
             ELSE RText(logs[i].text)

\* Plugwise.get_schedule_temperature
get_schedule_temperature(xmldata) ==
    LET point_log_id == get_point_log_id(xmldata, "schedule_temperature")
    IN  IF point_log_id.k = "raise" THEN point_log_id
        ELSE IF Truthy(point_log_id)
        THEN LET measurement == get_measurement_from_point_log(xmldata, point_log_id.s)
             IN  IF Truthy(measurement) THEN float(measurement.chars) ELSE RNone
        ELSE RNone

\* get_current_temperature testing the measurement before it coerces it, as
\* get_schedule_temperature does.
get_current_temperature_guarded(xmldata) ==
    LET current_temp_point_log_id == get_point_log_id(xmldata, "temperature")
    IN  IF current_temp_point_log_id.k = "raise" THEN current_temp_point_log_id
        ELSE IF Truthy(current_temp_point_log_id)
        THEN LET measurement ==
                     get_measurement_from_point_log(xmldata, current_temp_point_log_id.s)
             IN  IF Truthy(measurement) THEN float(measurement.chars) ELSE RNone
        ELSE RNone

\* Plugwise.get_current_temperature
get_current_temperature(xmldata) ==
    LET current_temp_point_log_id == get_point_log_id(xmldata, "temperature")
    IN  IF current_temp_point_log_id.k = "raise" THEN current_temp_point_log_id
        ELSE IF Truthy(current_temp_point_log_id)
        THEN LET measurement ==
                     get_measurement_from_point_log(xmldata, current_temp_point_log_id.s)
             IN  IF measurement.k = "None" THEN Raise("TypeError")
                 ELSE float(measurement.chars)
        ELSE RNone

(***************************************************************************)
(* Constants of the program and bounds of the model                        *)
(***************************************************************************)

PLUGWISE_PING_ENDPOINT == "/ping"
PLUGWISE_DOMAIN_OBJECTS_ENDPOINT == "/core/domain_objects"
PLUGWISE_APPLIANCES == "/core/appliances"

\* MIN_TIME_BETWEEN_UPDATES, in seconds.
MIN_TIME_BETWEEN_UPDATES == 2

\* The default of connect's retry parameter.
CONNECT_RETRY == 2

\* The default of request's retry parameter.
REQUEST_RETRY == 3

\* The clock runs from 0 to MaxTime seconds.
MaxTime == 3

\* Callers pass retry arguments from -1 to MaxRetry.
MaxRetry == 1

\* At most MaxCalls calls of throttle_update_domain_objects are made.
MaxCalls == 2

\* The coroutines that call the client; SeqTasks is the one of a caller that
\* awaits every call before it makes the next, ConcTasks are those of two
\* callers that poll and refresh the client without awaiting each other.
Tasks == {"t1", "t2", "t3"}
SeqTasks == {"t1"}
ConcTasks == {"t2", "t3"}

(***************************************************************************)
(* Response bodies                                                         *)
(*                                                                         *)
(* Body(chars, None) is the plain text chars; Body(chars, Some(t)) is a    *)
(* document whose element structure is t and whose character data, where   *)
(* the device may emit a bare '&', is chars.                               *)
(***************************************************************************)

Body(chars, tree) == [chars |-> chars, tree |-> tree]

\* The literal {"errorCode":0}
ErrorCode0 ==
    <<"{", "\"", "e", "r", "r", "o", "r", "C", "o", "d", "e", "\"", ":", "0", "}">>

\* The literal {"errorCode":1}
ErrorCode1 ==
    <<"{", "\"", "e", "r", "r", "o", "r", "C", "o", "d", "e", "\"", ":", "1", "}">>

\* One thermostat appliance with a point-log of id "42" holding "19.5", which
\* a module service registers for log-type temperature.
TreeA ==
    Tree(<<Service("temperature", TRUE, Some("42"))>>,
         <<PointLog("42", "thermostat", "temperature", TRUE, <<"1", "9", ".", "5">>)>>,
         <<>>)

\* A schedule temperature of 21 and an active rule with icon "home".
TreeB ==
    Tree(<<Service("schedule_temperature", TRUE, Some("7"))>>,
         <<PointLog("7", "thermostat", "schedule_temperature", TRUE, <<"2", "1">>)>>,
         <<Rule("true", TRUE, Some("home"))>>)

\* The bodies the device answers a request with.
RequestBodies ==
    { Body(<<>>, None),
      Body(ErrorCode0, None),
      Body(ErrorCode1, None),
      Body(<<"a", " ", "&", " ", "a">>, Some(TreeA)),
      Body(<<"a", "&">>, Some(TreeA)),
      Body(<<"a">>, Some(TreeB)) }

\* The bodies the device answers a ping with.
PingBodies ==
    { Body(<<"e", "r", "r", "o", "r">>, None),
      Body(ErrorCode0, None),
      Body(<<"o", "k">>, None),
      Body(<<>>, None) }

\* Etree.fromstring(self.escape_illegal_xml_characters(result))
Parse(body) ==
    IF body.tree = None \/ ~WellFormedText(escape_illegal_xml_characters(body.chars))
    THEN Raise("ParseError")
    ELSE RTree(body.tree[1])

\* `not result or result == '{"errorCode":0}'` in request
NoData(body) ==
    \/ body.tree = None /\ body.chars = <<>>
    \/ body.tree = None /\ body.chars = ErrorCode0

\* `'error' in result` in connect
HasMarker(body) == Contains(body.chars, <<"e", "r", "r", "o", "r">>)

(***************************************************************************)
(* The state of a client and of its callers                                *)
(***************************************************************************)

VARIABLES
    now,             \* dt.datetime.now(), in seconds
    throttle_time,   \* self._throttle_time: None or Some(time)
    domain_objects,  \* self._domain_objects: None or Some(tree)
    legacy_anna,     \* self._legacy_anna
    websession,      \* self.websession: "open" or "closed"
    task,            \* each caller's call in progress, or its last outcome
    thrLog,          \* every throttle_update_domain_objects call so far
    xmldata,         \* the text handed to escape_illegal_xml_characters
    escaped          \* None, or Some(the text it returned)

vars == <<now, throttle_time, domain_objects, legacy_anna, websession, task,
          thrLog, xmldata, escaped>>

(***************************************************************************)
(* A caller's record:                                                      *)
(*   op      the method called ("none" before the first call);             *)
(*   pc      "idle", "get" (suspended in websession.get), "text"           *)
(*           (suspended in resp.text()) or "done";                         *)
(*   n       the retry argument of the outermost connect or request;       *)
(*   retry   the retry parameter of the innermost one;                     *)
(*   command the path requested;                                           *)
(*   gets    the GETs issued so far;                                       *)
(*   timeouts, errors  the attempts so far that ended in                   *)
(*           asyncio.TimeoutError and in aiohttp.ClientError;              *)
(*   last    how the latest attempt ended: "timeout", "error",             *)
(*           "response" or "text_error";                                   *)
(*   how     why the call ended;                                           *)
(*   body    the body read, once read;                                     *)
(*   pre     the snapshot held when the call was made;                     *)
(*   nth     the position in thrLog of the call, 0 when it is no call of   *)
(*           throttle_update_domain_objects;                               *)
(*   req     what the inner connect or request returned or raised;         *)
(*   res     what the method called returned or raised.                    *)
(***************************************************************************)
Idle ==
    [op |-> "none", pc |-> "idle", n |-> 0, retry |-> 0, command |-> "",
     gets |-> 0, timeouts |-> 0, errors |-> 0, last |-> "", how |-> "", body |-> None, pre |-> None,
     nth |-> 0, req |-> Pending, res |-> Pending]

\* The position in thrLog of a call of op that is made now.
Nth(op) == IF op = "update_device" THEN Len(thrLog) + 1 ELSE 0

\* The record of a call of op, made now, that is about to run connect or
\* request with retry = n on command.
Call(op, n, command) ==
    [Idle EXCEPT !.op = op, !.n = n, !.retry = n, !.command = command,
                 !.pre = domain_objects, !.nth = Nth(op)]

\* The record of a call of op that ran to its end without suspending.
Direct(op, how, res) ==
    [Idle EXCEPT !.op = op, !.pc = "done", !.how = how, !.pre = domain_objects,
                 !.nth = Nth(op), !.res = res]

CanCall(t) == task[t].pc \in {"idle", "done"}

\* The record kept of caller t when its record becomes r. The fields n,
\* command, gets, timeouts, errors, last, body and pre are a history of the
\* call, which the program does not hold; it is kept of the caller of SeqTasks,
\* whose calls the properties below follow, and not of the callers of
\* ConcTasks, whose calls overlap.
Keep(t, r) ==
    IF t \in SeqTasks THEN r
    ELSE [Idle EXCEPT !.op = r.op, !.pc = r.pc, !.retry = r.retry, !.how = r.how,
                      !.nth = r.nth, !.req = r.req, !.res = r.res]

\* RefreshOps with a direct request call assigning the snapshot as well.
AssigningOps ==
    {"update_domain_objects", "find_all_appliances", "update_device", "request"}

\* The methods that assign the snapshot from a request.
RefreshOps == {"update_domain_objects", "find_all_appliances", "update_device"}

\* The methods that run request.
RequestOps == RefreshOps \cup {"request"}

\* Returned with update_domain_objects returning nothing, like the wrappers.
ReturnedNothing(op, v) ==
    IF v.k = "raise" THEN v
    ELSE IF op \in RefreshOps THEN RNone
    ELSE v

\* What the method op hands its caller when its connect or request ended
\* with v: an exception propagates, update_domain_objects returns the snapshot
\* it just assigned, update_device and find_all_appliances return nothing.
Returned(op, v) ==
    IF v.k = "raise" THEN v
    ELSE IF op \in {"find_all_appliances", "update_device"} THEN RNone
    ELSE v

\* Assigned keeping a snapshot that is already held.
AssignedFirst(held, v) == IF held = None THEN v.tree ELSE held

\* self._domain_objects after `self._domain_objects = await self.request(...)`
\* when request returned v and the snapshot held so far is held.
Assigned(held, v) == v.tree

\* End with a refresh whose request raised storing null, as it does when the
\* request returns null.
EndClearing(t, r, how, v) ==
    /\ task' = [task EXCEPT ![t] = Keep(t, [r EXCEPT !.pc = "done", !.how = how,
                                                     !.req = v,
                                                     !.res = Returned(r.op, v)])]
    /\ domain_objects' = IF r.op \in RefreshOps THEN v.tree ELSE domain_objects

\* The call of task t, with record r, ends: its connect or request returned or
\* raised v. A refresh assigns what request returned; when request raised, the
\* assignment is never reached.
End(t, r, how, v) ==
    /\ task' = [task EXCEPT ![t] = Keep(t, [r EXCEPT !.pc = "done", !.how = how,
                                                     !.req = v,
                                                     !.res = Returned(r.op, v)])]
    /\ domain_objects' =
           IF r.op \in RefreshOps /\ v.k # "raise"
           THEN Assigned(domain_objects, v)
           ELSE domain_objects

\* Get on a session that serves a GET also after it was closed.
GetOnClosed(t, r) ==
    /\ task' = [task EXCEPT ![t] = Keep(t, [r EXCEPT !.pc = "get", !.gets = @ + 1])]
    /\ UNCHANGED domain_objects

\* `resp = await self.websession.get(url, auth=self._auth)` by task t, whose
\* record is r: a closed session raises RuntimeError, which neither connect
\* nor request catches; an open one sends the GET and suspends the caller.
Get(t, r) ==
    IF websession = "closed"
    THEN End(t, r, "session_closed", Raise("RuntimeError"))
    ELSE /\ task' = [task EXCEPT ![t] = Keep(t, [r EXCEPT !.pc = "get", !.gets = @ + 1])]
         /\ UNCHANGED domain_objects

(***************************************************************************)
(* Transport layer                                                         *)
(***************************************************************************)

\* Plugwise.connect: the call, up to its first GET.
connect(t, n) ==
    /\ CanCall(t)
    /\ Get(t, Call("connect", n, PLUGWISE_PING_ENDPOINT))
    /\ UNCHANGED <<now, throttle_time, legacy_anna, websession, thrLog, xmldata, escaped>>

\* ConnectGivesUp allowing one attempt more.
ConnectGivesUpLate(retry) == retry < 0

\* `retry < 1` in connect's except clause
ConnectGivesUp(retry) == retry < 1

\* connect's `except (asyncio.TimeoutError, aiohttp.ClientError)`
ConnectExcept(t) ==
    /\ task[t].op = "connect"
    /\ task[t].pc = "get"
    /\ \E exc \in {"timeout", "error"} :
           LET r == [task[t] EXCEPT !.last = exc,
                                    !.timeouts = IF exc = "timeout" THEN @ + 1 ELSE @,
                                    !.errors = IF exc = "error" THEN @ + 1 ELSE @]
           IN  IF ConnectGivesUp(r.retry)
               THEN End(t, r, "failed", RBool(FALSE))
               ELSE Get(t, [r EXCEPT !.retry = @ - 1])
    /\ UNCHANGED <<now, throttle_time, legacy_anna, websession, thrLog, xmldata, escaped>>

\* websession.get returns a response; the caller goes on to `await resp.text()`.
Response(t) ==
    /\ task[t].pc = "get"
    /\ task' = [task EXCEPT ![t] = Keep(t, [@ EXCEPT !.pc = "text", !.last = "response"])]
    /\ UNCHANGED <<now, throttle_time, domain_objects, legacy_anna, websession,
                   thrLog, xmldata, escaped>>

\* `await resp.text()` fails: it stands outside the try of connect and of
\* request, so the error leaves the method.
TextError(t) ==
    /\ task[t].pc = "text"
    /\ End(t, [task[t] EXCEPT !.last = "text_error"], "text_error",
           Raise("ClientPayloadError"))
    /\ UNCHANGED <<now, throttle_time, legacy_anna, websession, thrLog, xmldata, escaped>>

\* ConnectValue accepting any body.
ConnectValueAny(body) == RBool(TRUE)

\* What connect returns once it has read body.
ConnectValue(body) == RBool(HasMarker(body))

\* connect reads the body of the ping response.
ConnectResult(t, body) ==
    /\ task[t].op = "connect"
    /\ task[t].pc = "text"
    /\ End(t, [task[t] EXCEPT !.body = Some(body)],
           IF HasMarker(body) THEN "marker" ELSE "no_marker", ConnectValue(body))
    /\ UNCHANGED <<now, throttle_time, legacy_anna, websession, thrLog, xmldata, escaped>>

\* Plugwise.close_connection
close_connection(t) ==
    /\ CanCall(t)
    /\ websession' = "closed"
    /\ task' = [task EXCEPT ![t] = Keep(t, Direct("close_connection", "closed", RNone))]
    /\ UNCHANGED <<now, throttle_time, domain_objects, legacy_anna, thrLog, xmldata, escaped>>

\* Plugwise.request: the call, up to its first GET.
request(t, command, n) ==
    /\ CanCall(t)
    /\ Get(t, Call("request", n, command))
    /\ UNCHANGED <<now, throttle_time, legacy_anna, websession, thrLog, xmldata, escaped>>

\* RequestGivesUp allowing one attempt more.
RequestGivesUpLate(retry) == retry < 0

\* `retry < 1` in request's except clause
RequestGivesUp(retry) == retry < 1

\* request's `except asyncio.TimeoutError`
RequestTimeout(t) ==
    /\ task[t].op \in RequestOps
    /\ task[t].pc = "get"
    /\ LET r == [task[t] EXCEPT !.last = "timeout", !.timeouts = @ + 1]
       IN  IF RequestGivesUp(r.retry)
           THEN End(t, r, "timeout", RNone)
           ELSE Get(t, [r EXCEPT !.retry = @ - 1])
    /\ UNCHANGED <<now, throttle_time, legacy_anna, websession, thrLog, xmldata, escaped>>

\* request's `except aiohttp.ClientError`
RequestClientError(t) ==
    /\ task[t].op \in RequestOps
    /\ task[t].pc = "get"
    /\ End(t, [task[t] EXCEPT !.last = "error", !.errors = @ + 1], "client_error", RNone)
    /\ UNCHANGED <<now, throttle_time, legacy_anna, websession, thrLog, xmldata, escaped>>

\* RequestValue with a body that does not parse treated as no data.
RequestValueLenient(body) ==
    IF NoData(body) \/ Parse(body).k = "raise" THEN RNone ELSE Parse(body)

\* What request returns or raises once it has read body.
RequestValue(body) == IF NoData(body) THEN RNone ELSE Parse(body)

\* request reads the body of the response.
RequestResult(t, body) ==
    /\ task[t].op \in RequestOps
    /\ task[t].pc = "text"
    /\ End(t, [task[t] EXCEPT !.body = Some(body)],
           IF NoData(body) THEN "no_data"
           ELSE IF Parse(body).k = "raise" THEN "parse_error" ELSE "parsed",
           RequestValue(body))
    /\ UNCHANGED <<now, throttle_time, legacy_anna, websession, thrLog, xmldata, escaped>>

(***************************************************************************)
(* Domain-state cache                                                      *)
(***************************************************************************)

\* Plugwise.update_domain_objects: the call, up to the first GET of its request.
update_domain_objects(t) ==
    /\ CanCall(t)
    /\ Get(t, Call("update_domain_objects", REQUEST_RETRY, PLUGWISE_DOMAIN_OBJECTS_ENDPOINT))
    /\ UNCHANGED <<now, throttle_time, legacy_anna, websession, thrLog, xmldata, escaped>>

\* find_all_appliances recording its fetch in the throttle timestamp.
find_all_appliances_stamping(t) ==
    /\ CanCall(t)
    /\ throttle_time' = Some(now)
    /\ Get(t, Call("find_all_appliances", REQUEST_RETRY, PLUGWISE_DOMAIN_OBJECTS_ENDPOINT))
    /\ UNCHANGED <<now, legacy_anna, websession, thrLog, xmldata, escaped>>

\* Plugwise.find_all_appliances
find_all_appliances(t) ==
    /\ CanCall(t)
    /\ Get(t, Call("find_all_appliances", REQUEST_RETRY, PLUGWISE_DOMAIN_OBJECTS_ENDPOINT))
    /\ UNCHANGED <<now, throttle_time, legacy_anna, websession, thrLog, xmldata, escaped>>

\* Throttled with the comparison made inclusive.
ThrottledInclusive(clock, stamp) ==
    stamp # None /\ clock - stamp[1] <= MIN_TIME_BETWEEN_UPDATES

\* The condition of throttle_update_domain_objects under which it returns at
\* once, read at time clock with the timestamp stamp.
Throttled(clock, stamp) ==
    stamp # None /\ clock - stamp[1] < MIN_TIME_BETWEEN_UPDATES

\* Stamped with the timestamp not yet written when the fetch is awaited.
StampedLate(clock) == throttle_time

\* self._throttle_time after a throttle_update_domain_objects call that went
\* on to fetch at time clock.
Stamped(clock) == Some(clock)

\* Plugwise.throttle_update_domain_objects: nothing suspends between the test,
\* the assignment of the timestamp and the first GET, so they are one step at
\* one reading of the clock.
throttle_update_domain_objects(t) ==
    /\ CanCall(t)
    /\ Len(thrLog) < MaxCalls
    /\ IF Throttled(now, throttle_time)
       THEN /\ task' = [task EXCEPT ![t] = Keep(t, Direct("update_device", "throttled", RNone))]
            /\ thrLog' = Append(thrLog, [at |-> now, fetched |-> FALSE])
            /\ UNCHANGED <<throttle_time, domain_objects>>
       ELSE /\ throttle_time' = Stamped(now)
            /\ thrLog' = Append(thrLog, [at |-> now, fetched |-> TRUE])
            /\ Get(t, Call("update_device", REQUEST_RETRY, PLUGWISE_DOMAIN_OBJECTS_ENDPOINT))
    /\ UNCHANGED <<now, legacy_anna, websession, xmldata, escaped>>

\* Plugwise.update_device
update_device(t) == throttle_update_domain_objects(t)

(***************************************************************************)
(* Getters: they do not suspend, so each call is one step                  *)
(***************************************************************************)

CallGetCurrentPreset(t) ==
    /\ CanCall(t)
    /\ task' = [task EXCEPT ![t] = Keep(t, Direct("get_current_preset", "getter",
                                                  get_current_preset(legacy_anna, domain_objects)))]
    /\ UNCHANGED <<now, throttle_time, domain_objects, legacy_anna, websession,
                   thrLog, xmldata, escaped>>

CallGetScheduleTemperature(t) ==
    /\ CanCall(t)
    /\ task' = [task EXCEPT ![t] = Keep(t, Direct("get_schedule_temperature", "getter",
                                                  get_schedule_temperature(domain_objects)))]
    /\ UNCHANGED <<now, throttle_time, domain_objects, legacy_anna, websession,
                   thrLog, xmldata, escaped>>

CallGetCurrentTemperature(t) ==
    /\ CanCall(t)
    /\ task' = [task EXCEPT ![t] = Keep(t, Direct("get_current_temperature", "getter",
                                                  get_current_temperature(domain_objects)))]
    /\ UNCHANGED <<now, throttle_time, domain_objects, legacy_anna, websession,
                   thrLog, xmldata, escaped>>

\* A second passes.
Tick ==
    /\ now < MaxTime
    /\ now' = now + 1
    /\ UNCHANGED <<throttle_time, domain_objects, legacy_anna, websession, task,
                   thrLog, xmldata, escaped>>

(***************************************************************************)
(* The client used by one caller that awaits each call                     *)
(***************************************************************************)

\* Plugwise.__init__
Init ==
    /\ now = 0
    /\ throttle_time = None
    /\ domain_objects = None
    /\ legacy_anna \in BOOLEAN
    /\ websession = "open"
    /\ task = [t \in Tasks |-> Idle]
    /\ thrLog = <<>>
    /\ xmldata = <<>>
    /\ escaped = None

RetryArgs == -1..MaxRetry

Commands == {PLUGWISE_DOMAIN_OBJECTS_ENDPOINT, PLUGWISE_APPLIANCES}

Next ==
    \/ Tick
    \/ \E t \in SeqTasks :
        \/ \E n \in RetryArgs \cup {CONNECT_RETRY} : connect(t, n)
        \/ ConnectExcept(t)
        \/ Response(t)
        \/ TextError(t)
        \/ \E body \in PingBodies : ConnectResult(t, body)
        \/ close_connection(t)
        \/ \E command \in Commands, n \in RetryArgs \cup {REQUEST_RETRY} :
               request(t, command, n)
        \/ RequestTimeout(t)
        \/ RequestClientError(t)
        \/ \E body \in RequestBodies : RequestResult(t, body)
        \/ update_domain_objects(t)
        \/ find_all_appliances(t)
        \/ update_device(t)
        \/ CallGetCurrentPreset(t)
        \/ CallGetScheduleTemperature(t)
        \/ CallGetCurrentTemperature(t)

Spec == Init /\ [][Next]_vars

(***************************************************************************)
(* The client polled and refreshed by two callers at once                  *)
(***************************************************************************)

\* The bodies the device answers the overlapping refreshes with.
RefreshBodies ==
    { Body(<<>>, None),
      Body(<<"a", " ", "&", " ", "a">>, Some(TreeA)),
      Body(<<"a">>, Some(TreeB)) }

NextConc ==
    \/ Tick
    \/ \E t \in ConcTasks :
        \/ update_device(t)
        \/ find_all_appliances(t)
        \/ Response(t)
        \/ TextError(t)
        \/ RequestTimeout(t)
        \/ RequestClientError(t)
        \/ \E body \in RefreshBodies : RequestResult(t, body)

\* Plugwise.__init__ with its default legacy_anna=False
InitConc == Init /\ legacy_anna = FALSE

SpecConc == InitConc /\ [][NextConc]_vars

(***************************************************************************)
(* The transport calls of one caller, every await of which ends            *)
(***************************************************************************)

\* The await of caller t ends: the GET is answered, times out or fails, or the
\* body is read or its read fails.
Settles(t) ==
    \/ ConnectExcept(t)
    \/ Response(t)
    \/ TextError(t)
    \/ \E body \in PingBodies : ConnectResult(t, body)
    \/ RequestTimeout(t)
    \/ RequestClientError(t)
    \/ \E body \in RequestBodies : RequestResult(t, body)

NextLive ==
    \E t \in SeqTasks :
        \/ \E n \in RetryArgs \cup {CONNECT_RETRY} : connect(t, n)
        \/ \E command \in Commands, n \in RetryArgs \cup {REQUEST_RETRY} :
               request(t, command, n)
        \/ update_domain_objects(t)
        \/ update_device(t)
        \/ Settles(t)

\* async_timeout.timeout(self._timeout) bounds every GET, and the read of a
\* body ends when the device has sent it or the connection drops: no await
\* lasts for ever.
SpecLive == Init /\ [][NextLive]_vars /\ \A t \in SeqTasks : WF_vars(Settles(t))

(***************************************************************************)
(* The sanitizer applied to every short text                               *)
(***************************************************************************)

\* The texts handed to the sanitizer are at most MaxLen characters long.
MaxLen == 4

EscapeAlphabet == {"&", "a", "#", " ", ";"}

InitEscape ==
    /\ now = 0
    /\ throttle_time = None
    /\ domain_objects = None
    /\ legacy_anna = FALSE
    /\ websession = "open"
    /\ task = [t \in Tasks |-> Idle]
    /\ thrLog = <<>>
    /\ xmldata \in SeqsUpTo(EscapeAlphabet, MaxLen)
    /\ escaped = None

\* A call of escape_illegal_xml_characters(xmldata).
Escape ==
    /\ escaped = None
    /\ escaped' = Some(escape_illegal_xml_characters(xmldata))
    /\ UNCHANGED <<now, throttle_time, domain_objects, legacy_anna, websession,
                   task, thrLog, xmldata>>

\* The sanitizer applied to the text it returned.
EscapeAgain ==
    /\ escaped # None
    /\ xmldata' = escaped[1]
    /\ escaped' = None
    /\ UNCHANGED <<now, throttle_time, domain_objects, legacy_anna, websession,
                   task, thrLog>>

NextEscape == Escape \/ EscapeAgain

SpecEscape == InitEscape /\ [][NextEscape]_vars

(***************************************************************************)
(* The getters applied to every small snapshot                             *)
(***************************************************************************)

\* A snapshot holds at most MaxServices services, MaxLogs point-logs and
\* MaxRules rules.
MaxServices == 2
MaxLogs == 2
MaxRules == 2

ServicePool ==
    { Service(lt, pl[1], pl[2]) :
        lt \in {"temperature", "schedule_temperature"},
        pl \in {<<FALSE, None>>, <<TRUE, None>>, <<TRUE, Some("42")>>, <<TRUE, Some("")>>} }

LogPool ==
    { PointLog("42", "thermostat", "temperature", FALSE, <<>>),
      PointLog("42", "thermostat", "temperature", TRUE, <<>>),
      PointLog("42", "thermostat", "temperature", TRUE, <<"1", "9", ".", "5">>),
      PointLog("42", "thermostat", "temperature", TRUE, <<"o", "n">>),
      PointLog("7", "thermostat", "temperature", TRUE, <<"2", "1">>) }

RulePool ==
    { Rule(a, th[1], th[2]) :
        a \in {"true", "false"},
        th \in {<<FALSE, None>>, <<TRUE, None>>, <<TRUE, Some("home")>>} }

PresetLogPool ==
    { PointLog("9", "thermostat", "preset_state", TRUE, <<"a">>),
      PointLog("9", "thermostat", "preset_state", TRUE, <<>>),
      PointLog("9", "heater", "preset_state", TRUE, <<"a">>) }

\* The snapshots the temperature getters are applied to.
TemperatureTrees ==
    { Tree(sv, lg, <<>>) :
        sv \in SeqsUpTo(ServicePool, MaxServices), lg \in SeqsUpTo(LogPool, MaxLogs) }

\* The snapshots the preset getter is applied to, in both modes.
PresetTrees ==
    { Tree(<<>>, lg, rl) :
        lg \in SeqsUpTo(PresetLogPool, 1), rl \in SeqsUpTo(RulePool, MaxRules) }

InitGetters ==
    /\ now = 0
    /\ throttle_time = None
    /\ \/ domain_objects \in {None} \cup {Some(tr) : tr \in PresetTrees}
          /\ legacy_anna \in BOOLEAN
       \/ domain_objects \in {Some(tr) : tr \in TemperatureTrees}
          /\ legacy_anna = FALSE
    /\ websession = "open"
    /\ task = [t \in Tasks |-> Idle]
    /\ thrLog = <<>>
    /\ xmldata = <<>>
    /\ escaped = None

NextGetters ==
    \E t \in SeqTasks :
        \/ CallGetCurrentPreset(t)
        \/ CallGetScheduleTemperature(t)
        \/ CallGetCurrentTemperature(t)

SpecGetters == InitGetters /\ [][NextGetters]_vars

(***************************************************************************)
(* Properties                                                              *)
(***************************************************************************)

\* The calls of throttle_update_domain_objects, among the first k, that went on
\* to fetch.
Fetches(k) == {i \in 1..k : thrLog[i].fetched}

\* C1: of the first two throttle_update_domain_objects (update_device) calls
\* on a client, the first, which finds the timestamp unset, fetches and records
\* its time; when the second is made less than 2 seconds after that time one
\* fetch is triggered in all, and when it is made 2 seconds or more after it,
\* two are.
C1_TwoCalls ==
    Len(thrLog) >= 2 =>
        /\ thrLog[1].fetched
        /\ thrLog[2].at - thrLog[1].at < 2 => Cardinality(Fetches(2)) = 1
        /\ thrLog[2].at - thrLog[1].at >= 2 => Cardinality(Fetches(2)) = 2

\* The second call is made exactly 2 seconds after the first, it fetches, and
\* its request is in flight.
C1_Witness ==
    /\ Len(thrLog) >= 2
    /\ thrLog[2].at - thrLog[1].at = 2
    /\ Cardinality(Fetches(2)) = 2
    /\ \E t \in SeqTasks : task[t].op = "update_device" /\ task[t].pc = "get"

\* The call of task t is a refresh that has returned after its fetch failed
\* or brought no data.
FailedRefresh(t) ==
    /\ task[t].op \in RefreshOps
    /\ task[t].pc = "done"
    /\ task[t].how \in {"timeout", "client_error", "no_data"}

\* C2: when a domain-objects fetch fails (its timeouts exhaust the retries, or
\* another transport error occurs) or brings no data (an empty body or the
\* {"errorCode":0} sentinel), the snapshot held once update_domain_objects,
\* find_all_appliances or update_device has returned is the one held before
\* the call.
C2_SnapshotRetained ==
    \A t \in SeqTasks : FailedRefresh(t) => domain_objects = task[t].pre

\* The request calls, direct or made by a refresh, that returned a value.
RequestReturned(t) ==
    /\ task[t].op \in RequestOps
    /\ task[t].pc = "done"
    /\ task[t].req.k \in {"None", "tree"}

BodyIsEmpty(t) ==
    task[t].body # None /\ task[t].body[1] = Body(<<>>, None)

BodyIsSentinel(t) ==
    task[t].body # None /\ task[t].body[1] = Body(ErrorCode0, None)

\* Every attempt the retry argument permits was made and timed out.
TimeoutsExhausted(t) ==
    /\ task[t].body = None
    /\ task[t].last = "timeout"
    /\ task[t].timeouts = task[t].gets

\* The call ended on an attempt that failed with an aiohttp.ClientError.
EndedInClientError(t) ==
    /\ task[t].body = None
    /\ task[t].last = "error"

\* Whatever request returns that is not null is the tree of the body it read.
TreeOfBody(t) ==
    task[t].req.k # "None" =>
        /\ task[t].body # None
        /\ task[t].req = RTree(task[t].body[1].tree[1])

\* C3, as claimed: a request call that returns a value returns null if and
\* only if the body is empty, or is the literal {"errorCode":0}, or every
\* permitted attempt timed out; otherwise it returns the parsed tree.
C3_NullIffThree ==
    \A t \in SeqTasks : RequestReturned(t) =>
        /\ task[t].req.k = "None" <=>
               BodyIsEmpty(t) \/ BodyIsSentinel(t) \/ TimeoutsExhausted(t)
        /\ TreeOfBody(t)

\* C3, amended: a request call that returns a value returns null if and only
\* if the body is empty, or is the literal {"errorCode":0}, or every permitted
\* attempt timed out, or an attempt failed with a transport error that is no
\* timeout; otherwise it returns the parsed tree.
C3_NullIffFour ==
    \A t \in SeqTasks : RequestReturned(t) =>
        /\ task[t].req.k = "None" <=>
               \/ BodyIsEmpty(t)
               \/ BodyIsSentinel(t)
               \/ TimeoutsExhausted(t)
               \/ EndedInClientError(t)
        /\ TreeOfBody(t)

\* A request returned null because its second attempt failed with a
\* transport error that is no timeout.
C3_Witness ==
    \E t \in SeqTasks :
        /\ RequestReturned(t)
        /\ task[t].op = "request"
        /\ EndedInClientError(t)
        /\ task[t].gets = 2
        /\ task[t].req = RNone

\* The calls of the followed caller that run request with a retry argument
\* n >= 0 and have sent a GET.
Requesting(t) ==
    /\ task[t].op \in RequestOps
    /\ task[t].n >= 0
    /\ task[t].gets >= 1

\* C4: in request(command, retry=n) with n >= 0 every GET after the first
\* follows a timeout and every timeout is followed by a GET while fewer than n
\* retries have been used, so at most n+1 GETs are sent; n+1 timeouts in a row
\* end the call with null; a transport error that is no timeout ends the call
\* with null at once, with no further GET.
C4_RequestRetries ==
    \A t \in SeqTasks : Requesting(t) =>
        /\ task[t].gets <= task[t].n + 1
        /\ task[t].last # "timeout" => task[t].gets = task[t].timeouts + 1
        /\ task[t].last = "timeout" =>
               IF task[t].timeouts <= task[t].n
               THEN task[t].pc = "get" /\ task[t].gets = task[t].timeouts + 1
               ELSE /\ task[t].pc = "done"
                    /\ task[t].gets = task[t].n + 1
                    /\ task[t].req = RNone
        /\ task[t].last = "error" =>
               /\ task[t].pc = "done"
               /\ task[t].errors = 1
               /\ task[t].req = RNone

\* A request with retry=1 returned null after two GETs that both timed out.
C4_Witness ==
    \E t \in SeqTasks :
        /\ task[t].op = "request"
        /\ task[t].n = 1
        /\ task[t].pc = "done"
        /\ task[t].timeouts = 2
        /\ task[t].gets = 2
        /\ task[t].req = RNone

\* The connect calls of the followed caller with a retry argument n >= 0 that
\* have sent a GET.
Connecting(t) ==
    /\ task[t].op = "connect"
    /\ task[t].n >= 0
    /\ task[t].gets >= 1

\* C5: connect(retry=n) with n >= 0 sends at most n+1 GETs to the ping path,
\* one more after each attempt that fails, by a timeout or by another
\* transport error; it returns true exactly when an attempt obtains a response
\* whose body contains "error"; it returns false when all n+1 attempts fail,
\* and false with no further attempt when the body obtained lacks "error".
C5_Connect ==
    \A t \in SeqTasks : Connecting(t) =>
        LET failed == task[t].timeouts + task[t].errors
            marker == /\ task[t].body # None
                      /\ Contains(task[t].body[1].chars, <<"e", "r", "r", "o", "r">>)
        IN  /\ task[t].command = PLUGWISE_PING_ENDPOINT
            /\ task[t].gets <= task[t].n + 1
            /\ task[t].pc \in {"get", "text"} => task[t].gets = failed + 1
            /\ task[t].pc = "done" /\ task[t].res.k \in {"True", "False"} =>
                   /\ task[t].res.k = "True" <=> marker
                   /\ task[t].body = None <=> failed = task[t].n + 1
                   /\ task[t].body = None => task[t].gets = task[t].n + 1
                   /\ task[t].body # None => task[t].gets = failed + 1

\* A connect returned true on its second attempt, the first having failed
\* with a transport error that is no timeout.
C5_Witness ==
    \E t \in SeqTasks :
        /\ task[t].op = "connect"
        /\ task[t].pc = "done"
        /\ task[t].gets = 2
        /\ task[t].errors = 1
        /\ task[t].res = RBool(TRUE)

\* The calls that ended on a transport failure or on a sentinel payload.
EndedOnFailure(t) ==
    /\ task[t].op \in RequestOps \cup {"connect"}
    /\ task[t].pc = "done"
    /\ \/ task[t].last \in {"timeout", "error", "text_error"}
       \/ BodyIsEmpty(t)
       \/ BodyIsSentinel(t)
       \/ task[t].how = "no_marker"

\* C6: no transport failure (a timeout, a connection error, a failure while
\* the response body is read) and no sentinel payload makes connect, request,
\* update_domain_objects or update_device end by raising: connect ends with a
\* boolean and request with null or a tree.
C6_NeverRaises ==
    \A t \in SeqTasks : EndedOnFailure(t) =>
        /\ task[t].res.k # "raise"
        /\ task[t].op = "connect" => task[t].res.k \in {"True", "False"}
        /\ task[t].op # "connect" => task[t].req.k \in {"None", "tree"}

\* C7: whatever the callers do, any two fetches started by update_device /
\* throttle_update_domain_objects calls on one client are at least 2 seconds
\* apart, also while the earlier one is still in flight.
C7_FetchesApart ==
    \A i, j \in 1..Len(thrLog) :
        i < j /\ thrLog[i].fetched /\ thrLog[j].fetched =>
            thrLog[j].at - thrLog[i].at >= MIN_TIME_BETWEEN_UPDATES

\* Two update_device calls have both fetched, and the request of the first is
\* still in flight while that of the second is.
C7_Witness ==
    /\ Len(thrLog) >= 2
    /\ Cardinality(Fetches(Len(thrLog))) >= 2
    /\ \A t \in ConcTasks : task[t].op = "update_device" /\ task[t].pc \in {"get", "text"}

RECURSIVE EscapeEveryFrom(_, _)
\* The text C8 describes, from position i of text on: each '&' that no letter
\* and no '#' follows, the last character included, becomes &amp; and every
\* other character stays.
EscapeEveryFrom(text, i) ==
    IF i > Len(text) THEN <<>>
    ELSE IF /\ text[i] = "&"
            /\ i = Len(text) \/ text[i + 1] \notin Letters \cup {"#"}
         THEN AmpEntity \o EscapeEveryFrom(text, i + 1)
         ELSE <<text[i]>> \o EscapeEveryFrom(text, i + 1)

\* C8: escape_illegal_xml_characters returns its input with every '&' that is
\* not immediately followed by a letter or '#' (one followed by another '&'
\* and one that ends the text included) replaced by &amp;, every other '&'
\* and every other character left as it was.
C8_EscapesEvery ==
    escaped # None => escaped[1] = EscapeEveryFrom(xmldata, 1)

TemperatureGetters == {"get_current_temperature", "get_schedule_temperature"}

\* The log-type each temperature getter looks up.
LogTypeOf(op) ==
    IF op = "get_current_temperature" THEN "temperature" ELSE "schedule_temperature"

\* The calls of a temperature getter, made on a snapshot that is not null,
\* that have ended.
GotTemperature(t) ==
    /\ task[t].op \in TemperatureGetters
    /\ task[t].pc = "done"
    /\ task[t].pre # None

\* The snapshot of C9's example and nothing else: one thermostat appliance
\* with a point-log of type temperature, id "42" and measurement "19.5".
ExampleLogs ==
    <<PointLog("42", "thermostat", "temperature", TRUE, <<"1", "9", ".", "5">>)>>

\* What both readings of C9 say of the call of task t: null when no module
\* service of the getter's log-type has a point_log, or the first that has one
\* gives it an empty id; and when that id is not empty and the first
\* measurement of a point-log with that id has a numeric text, the value of
\* that text.
ReturnsRegistered(t) ==
    LET tree == task[t].pre[1]
        hits == {i \in 1..Len(tree.services) :
                    /\ tree.services[i].log_type = LogTypeOf(task[t].op)
                    /\ tree.services[i].point_log}
        id   == tree.services[First(hits)].id
        logs == {j \in 1..Len(tree.logs) :
                    /\ tree.logs[j].id = id[1]
                    /\ tree.logs[j].measurement}
        text == tree.logs[First(logs)].text
    IN  /\ hits = {} => task[t].res = RNone
        /\ hits # {} /\ id = Some("") => task[t].res = RNone
        /\ hits # {} /\ id # None /\ id # Some("") /\ logs # {} =>
               /\ text = <<"1", "9", ".", "5">> => task[t].res = RFloat(195, 1)
               /\ text = <<"2", "1">> => task[t].res = RFloat(21, 0)
               /\ float(text).k = "float" => task[t].res = float(text)

\* C9, as claimed: on a snapshot that is not null each temperature getter
\* returns null when no point-log identifier for its log-type can be found and
\* otherwise the numeric value of the measurement of the point-log with the
\* registered identifier; and a snapshot holding one thermostat appliance with
\* a point-log of type temperature, id "42" and measurement "19.5" makes
\* get_current_temperature return 19.5.
C9_AsClaimed ==
    \A t \in SeqTasks : GotTemperature(t) =>
        /\ ReturnsRegistered(t)
        /\ task[t].op = "get_current_temperature" /\ task[t].pre[1].logs = ExampleLogs =>
               task[t].res = RFloat(195, 1)

\* C9, amended: the same, with the example completed by what the lookup reads:
\* a snapshot holding a module service of log-type temperature whose point_log
\* has id "42", and one thermostat appliance with a point-log of id "42" and
\* measurement "19.5", makes get_current_temperature return 19.5.
C9_Registered ==
    \A t \in SeqTasks : GotTemperature(t) =>
        /\ ReturnsRegistered(t)
        /\ /\ task[t].op = "get_current_temperature"
           /\ task[t].pre[1].services = <<Service("temperature", TRUE, Some("42"))>>
           /\ task[t].pre[1].logs = ExampleLogs
           => task[t].res = RFloat(195, 1)

\* get_current_temperature returned 19.5 from a snapshot in which the
\* registered id "42" selects the second of two point-logs.
C9_Witness ==
    \E t \in SeqTasks :
        /\ GotTemperature(t)
        /\ task[t].op = "get_current_temperature"
        /\ task[t].pre[1].services = <<Service("temperature", TRUE, Some("42"))>>
        /\ Len(task[t].pre[1].logs) = 2
        /\ task[t].pre[1].logs[1].id = "7"
        /\ task[t].pre[1].logs[2] = ExampleLogs[1]
        /\ task[t].res = RFloat(195, 1)

\* C10: while the snapshot is null, which it is before any refresh has run and
\* after a refresh that ended in a transport failure or a no-data sentinel,
\* get_schedule_temperature and get_current_temperature return null and the
\* legacy get_current_preset returns "none"; none of them raises.
C10_NullSnapshot ==
    \A t \in SeqTasks :
        task[t].pc = "done" /\ task[t].how = "getter" /\ task[t].pre = None =>
            /\ task[t].op \in TemperatureGetters => task[t].res = RNone
            /\ task[t].op = "get_current_preset" /\ legacy_anna =>
                   task[t].res = RId("none")

\* The calls of the legacy get_current_preset, made on a snapshot that is not
\* null, that have ended.
GotLegacyPreset(t) ==
    /\ task[t].op = "get_current_preset"
    /\ task[t].pc = "done"
    /\ legacy_anna
    /\ task[t].pre # None

\* C11: in legacy mode, on a snapshot that is not null, get_current_preset
\* never raises; it returns "none" when no rule is marked active or no active
\* rule has a 'then' action, and otherwise the icon attribute of the 'then'
\* action of the active rule (the first in document order that has one), or
\* "none" when that action has no icon attribute.
C11_LegacyPreset ==
    \A t \in SeqTasks : GotLegacyPreset(t) =>
        LET rules  == task[t].pre[1].rules
            active == {i \in 1..Len(rules) : rules[i].active = "true"}
            acting == {i \in active : rules[i].then}
            a      == First(acting)
        IN  /\ task[t].res.k = "str"
            /\ active = {} => task[t].res = RId("none")
            /\ acting = {} => task[t].res = RId("none")
            /\ acting # {} /\ rules[a].icon = None => task[t].res = RId("none")
            /\ acting # {} /\ rules[a].icon # None => task[t].res = RId(rules[a].icon[1])

\* The legacy get_current_preset returned "home", the icon of the second rule,
\* the first rule being inactive.
C11_Witness ==
    \E t \in SeqTasks :
        /\ GotLegacyPreset(t)
        /\ task[t].pre[1].rules =
               <<Rule("false", TRUE, Some("home")), Rule("true", TRUE, Some("home"))>>
        /\ task[t].res = RId("home")

\* The getters.
GetterOps == {"get_current_preset", "get_schedule_temperature", "get_current_temperature"}

\* The step is one of caller t: it makes a call, or takes its call further.
Acts(t) == task'[t] # task[t]

\* C12: the connection goes from Disconnected through Connecting (a connect
\* call awaiting its GET or the body) to Connected (the call returns true) or
\* back (it returns false); no step of a request, a refresh or a getter changes
\* the state of the session; the only change it ever sees is close_connection
\* closing it; and once it is closed it stays closed, no call sends a GET, the
\* calls that would send one raise, and the snapshot is not assigned.
C12_Lifecycle ==
    [][\A t \in SeqTasks :
        /\ websession' # websession =>
               /\ websession' = "closed"
               /\ Acts(t)
               /\ task'[t].op = "close_connection"
        /\ Acts(t) /\ task'[t].op \in RequestOps \cup GetterOps \cup {"connect"} =>
               websession' = websession
        /\ Acts(t) /\ task'[t].op = "connect" /\ task'[t].res.k \in {"True", "False"} =>
               /\ task[t].op = "connect"
               /\ task[t].pc \in {"get", "text"}
               /\ task'[t].res.k = "True" => task[t].pc = "text"
        /\ websession = "closed" =>
               /\ websession' = "closed"
               /\ domain_objects' = domain_objects
               /\ Acts(t) =>
                      /\ task'[t].pc = "done"
                      /\ task'[t].gets = 0
                      /\ task'[t].res.k \notin {"True", "tree"}
                      /\ /\ task'[t].op \in RequestOps \cup {"connect"}
                         /\ task'[t].how # "throttled"
                         => task'[t].res = Raise("RuntimeError")
      ]_vars

\* update_domain_objects, called after the session was closed, raised without
\* sending a GET, and the snapshot fetched before the close is still held.
C12_Witness ==
    \E t \in SeqTasks :
        /\ websession = "closed"
        /\ task[t].op = "update_domain_objects"
        /\ task[t].pc = "done"
        /\ task[t].gets = 0
        /\ task[t].res = Raise("RuntimeError")
        /\ task[t].pre # None
        /\ domain_objects = task[t].pre

\* The step completes the refresh of caller t: its request returns a value.
Completes(t) ==
    /\ task[t].op \in RefreshOps
    /\ task[t].pc \in {"get", "text"}
    /\ task'[t].pc = "done"
    /\ task'[t].req.k \in {"None", "tree"}

\* C13: refreshes of one client overlap, and each one that completes assigns
\* what its own request returned, whatever was assigned while it was in flight
\* and whichever refresh was started first; nothing else assigns the snapshot.
\* So once two overlapping refreshes have completed, the snapshot held is the
\* result of the one that completed last.
C13_LastWriteWins ==
    [][/\ \A t \in ConcTasks : Completes(t) => domain_objects' = task'[t].req.tree
       /\ domain_objects' # domain_objects => \E t \in ConcTasks : Completes(t)
      ]_vars

\* Two update_device calls have completed: that of t2, made first, at second
\* 0, and that of t3, made 2 seconds later while the first was in flight. They
\* returned different trees and the one held is that of t2, which therefore
\* completed last.
C13_Witness ==
    /\ Len(thrLog) = 2
    /\ thrLog[1] = [at |-> 0, fetched |-> TRUE]
    /\ thrLog[2] = [at |-> MIN_TIME_BETWEEN_UPDATES, fetched |-> TRUE]
    /\ \A t \in ConcTasks : task[t].op = "update_device" /\ task[t].pc = "done"
    /\ task["t2"].nth = 1
    /\ task["t3"].nth = 2
    /\ task["t2"].req = RTree(TreeA)
    /\ task["t3"].req = RTree(TreeB)
    /\ domain_objects = Some(TreeA)

\* The update_domain_objects calls that have returned.
UpdateReturned(t) ==
    /\ task[t].op = "update_domain_objects"
    /\ task[t].pc = "done"
    /\ task[t].res.k # "raise"

\* C14: every update_domain_objects call that has returned ran a request
\* against the domain-objects path, which sent a GET and returned a tree or
\* null; the snapshot held is that value, whatever was held before the call,
\* and the call returned that same value.
C14_StoresResult ==
    \A t \in SeqTasks : UpdateReturned(t) =>
        /\ task[t].command = PLUGWISE_DOMAIN_OBJECTS_ENDPOINT
        /\ task[t].gets >= 1
        /\ task[t].req.k \in {"None", "tree"}
        /\ domain_objects = task[t].req.tree
        /\ task[t].res = task[t].req
        /\ task[t].res = ROpt(domain_objects)

\* update_domain_objects, called with a tree held, returned null after its
\* request brought the {"errorCode":0} sentinel, and null is what is held.
C14_Witness ==
    \E t \in SeqTasks :
        /\ UpdateReturned(t)
        /\ task[t].pre = Some(TreeA)
        /\ BodyIsSentinel(t)
        /\ task[t].res = RNone
        /\ domain_objects = None

\* update_domain_objects and the two methods that do nothing but call it,
\* update_device through throttle_update_domain_objects.
UpdateOps == {"update_domain_objects", "find_all_appliances", "update_device"}

\* C15: the snapshot changes only in the step in which an awaited
\* update_domain_objects assigns it; no step of connect, of a direct request,
\* of close_connection or of a getter changes it; and a
\* throttle_update_domain_objects call made less than 2 seconds after the
\* timestamp returns at once, leaving the snapshot and the timestamp as they
\* were and sending no GET.
C15_Frame ==
    [][\A t \in SeqTasks :
        /\ domain_objects' # domain_objects =>
               /\ task[t].op \in UpdateOps
               /\ task[t].pc \in {"get", "text"}
               /\ task'[t].pc = "done"
        /\ Acts(t) /\ task'[t].op \in {"connect", "request", "close_connection"} \cup GetterOps =>
               domain_objects' = domain_objects
        /\ /\ Acts(t)
           /\ task'[t].op = "update_device"
           /\ task[t].pc \in {"idle", "done"}
           /\ throttle_time # None
           /\ now - throttle_time[1] < 2
           => /\ task'[t].pc = "done"
              /\ task'[t].gets = 0
              /\ task'[t].res = RNone
              /\ domain_objects' = domain_objects
              /\ throttle_time' = throttle_time
      ]_vars

\* A direct request for the domain objects returned a tree other than the one
\* held, and the one held is still the one held when the call was made.
C15_Witness ==
    \E t \in SeqTasks :
        /\ task[t].op = "request"
        /\ task[t].pc = "done"
        /\ task[t].command = PLUGWISE_DOMAIN_OBJECTS_ENDPOINT
        /\ task[t].res = RTree(TreeB)
        /\ task[t].pre = Some(TreeA)
        /\ domain_objects = Some(TreeA)

\* C16: on a snapshot that is not null in which the point-log identifier for
\* the getter's log-type is found (the first module service of that log-type
\* that has a point_log gives it a non-empty id) but no measurement exists for
\* that identifier (no point-log with that id has one, or the first that has
\* one is empty), get_schedule_temperature returns null while
\* get_current_temperature raises; where the measurement is present the two
\* getters do the same, each with the text of its measurement: they return its
\* numeric value (and raise alike on a text that is no number).
C16_MissingMeasurement ==
    \A t \in SeqTasks : GotTemperature(t) =>
        LET tree   == task[t].pre[1]
            hits   == {i \in 1..Len(tree.services) :
                          /\ tree.services[i].log_type = LogTypeOf(task[t].op)
                          /\ tree.services[i].point_log}
            id     == tree.services[First(hits)].id
            found  == hits # {} /\ id # None /\ id # Some("")
            logs   == {j \in 1..Len(tree.logs) :
                          /\ tree.logs[j].id = id[1]
                          /\ tree.logs[j].measurement}
            text   == tree.logs[First(logs)].text
            absent == logs = {} \/ text = <<>>
        IN  /\ found /\ absent /\ task[t].op = "get_schedule_temperature" =>
                   task[t].res = RNone
            /\ found /\ absent /\ task[t].op = "get_current_temperature" =>
                   task[t].res.k = "raise"
            /\ found /\ ~absent => task[t].res = float(text)
            /\ found /\ ~absent /\ float(text).k = "float" => task[t].res.k = "float"

\* get_current_temperature raised TypeError on a snapshot whose module service
\* registers id "42" for log-type temperature while the only point-log has
\* another id.
C16_Witness ==
    \E t \in SeqTasks :
        /\ GotTemperature(t)
        /\ task[t].op = "get_current_temperature"
        /\ task[t].pre[1].services = <<Service("temperature", TRUE, Some("42"))>>
        /\ task[t].pre[1].logs = <<PointLog("7", "thermostat", "temperature", TRUE, <<"2", "1">>)>>
        /\ task[t].res = Raise("TypeError")

\* Every '&' of text is followed by a letter or by '#'.
AlreadyValid(text) ==
    \A i \in 1..Len(text) :
        text[i] = "&" => i < Len(text) /\ text[i + 1] \in Letters \cup {"#"}

\* C17: escape_illegal_xml_characters returns unchanged every text in which
\* each '&' is already followed by a letter or '#', and for every text,
\* sanitizing what it returned yields that same text again.
C17_Idempotent ==
    escaped # None =>
        /\ AlreadyValid(xmldata) => escaped[1] = xmldata
        /\ escape_illegal_xml_characters(escaped[1]) = escaped[1]

\* The step is caller t making a call.
Calls(t) == Acts(t) /\ task[t].pc \in {"idle", "done"}

\* C18: a find_all_appliances or update_domain_objects call sends its GET for
\* the domain objects whatever the throttle timestamp is, also inside the
\* 2-second window, and no step of such a call changes the timestamp; so an
\* update_device call that finds the timestamp unset or 2 seconds old fetches
\* and stamps, however recently one of those calls fetched.
C18_Unthrottled ==
    [][\A t \in SeqTasks :
        /\ Acts(t) /\ task'[t].op \in {"find_all_appliances", "update_domain_objects"} =>
               throttle_time' = throttle_time
        /\ /\ Calls(t)
           /\ task'[t].op \in {"find_all_appliances", "update_domain_objects"}
           /\ websession = "open"
           => /\ task'[t].pc = "get"
              /\ task'[t].gets = 1
              /\ task'[t].command = PLUGWISE_DOMAIN_OBJECTS_ENDPOINT
        /\ /\ Calls(t)
           /\ task'[t].op = "update_device"
           /\ websession = "open"
           /\ throttle_time = None \/ now - throttle_time[1] >= MIN_TIME_BETWEEN_UPDATES
           => /\ task'[t].pc = "get"
              /\ task'[t].gets = 1
              /\ throttle_time' = Some(now)
      ]_vars

\* At second 0 an unthrottled refresh has fetched the tree now held, and the
\* first update_device call, made in that same second, has sent a GET of its
\* own.
C18_Witness ==
    \E t \in SeqTasks :
        /\ now = 0
        /\ task[t].op = "update_device"
        /\ task[t].pc = "get"
        /\ task[t].gets = 1
        /\ task[t].pre = Some(TreeA)
        /\ thrLog = <<[at |-> 0, fetched |-> TRUE]>>

\* The refresh of caller t ended on a body that is no sentinel and does not
\* parse after sanitization.
UnparsedRefresh(t) ==
    /\ task[t].op \in UpdateOps
    /\ task[t].pc = "done"
    /\ task[t].body # None
    /\ ~BodyIsEmpty(t)
    /\ ~BodyIsSentinel(t)
    /\ \/ task[t].body[1].tree = None
       \/ ~WellFormedText(escape_illegal_xml_characters(task[t].body[1].chars))

\* C19: when the body of a domain-objects response is no sentinel and does
\* not parse after sanitization, request raises, update_domain_objects (also
\* when called by find_all_appliances or update_device) raises the same error
\* and the snapshot held is the one held before the call.
C19_ParseErrorPropagates ==
    \A t \in SeqTasks : UnparsedRefresh(t) =>
        /\ task[t].req = Raise("ParseError")
        /\ task[t].res = task[t].req
        /\ domain_objects = task[t].pre

\* update_domain_objects, called with a tree held, raised on the body a& ,
\* whose final '&' the sanitizer leaves bare, and the tree is still held.
C19_Witness ==
    \E t \in SeqTasks :
        /\ UnparsedRefresh(t)
        /\ task[t].op = "update_domain_objects"
        /\ task[t].body[1].chars = <<"a", "&">>
        /\ task[t].pre = Some(TreeB)
        /\ task[t].res = Raise("ParseError")
        /\ domain_objects = Some(TreeB)

\* The calls of the followed caller that run connect or request and have sent
\* a GET.
Transporting(t) ==
    /\ task[t].op \in RequestOps \cup {"connect"}
    /\ task[t].gets >= 1

\* The number of activations of connect or request the call of caller t has
\* entered: the outermost has retry = n and each self-call passes retry - 1.
Depth(t) == task[t].n - task[t].retry + 1

\* max(n, 0)
AtLeastZero(n) == IF n < 0 THEN 0 ELSE n

\* C20: given that no await lasts for ever, every connect(retry=n) and
\* request(command, retry=n) call ends, returning or raising, for every n from
\* -1 up, after at most max(n, 0) + 1 activations, each of which sends one
\* GET; and so does every update_domain_objects and update_device call.
C20_Terminates ==
    /\ [](\A t \in SeqTasks : Transporting(t) =>
              /\ Depth(t) >= 1
              /\ Depth(t) <= AtLeastZero(task[t].n) + 1
              /\ task[t].gets = Depth(t))
    /\ \A t \in SeqTasks : (task[t].pc \in {"get", "text"}) ~> (task[t].pc = "done")

\* A request with retry=-1 returned null after the one GET it sent timed out.
C20_Witness ==
    \E t \in SeqTasks :
        /\ task[t].op = "request"
        /\ task[t].n = -1
        /\ task[t].pc = "done"
        /\ task[t].gets = 1
        /\ task[t].timeouts = 1
        /\ task[t].res = RNone

=============================================================================
